---- MODULE Spec2Model ----
(***************************************************************************)
(* Model of the remote job client (src/hpc_client_ssh.py, HPCSSHClient),  *)
(* of the Home page handlers that create and drop it (src/Home.py), and of *)
(* the pages that use it and share st.session_state (src/pages).           *)
(*                                                                         *)
(* Text is modelled as a sequence of atoms.  An atom is one whitespace     *)
(* character, one digit, one other character, or one scheduler state name  *)
(* (a run of letters that the scheduler prints as a whole).                *)
(***************************************************************************)
EXTENDS Integers, Sequences, FiniteSets, TLC

\* ------------------------------------------------------------- bounds
\* Longest scheduler reply, in atoms, that IOSpec enumerates.
MaxOut == 3
\* Number of HPCSSHClient objects constructed in one run.
MaxClients == 2
\* Largest gpus argument of a rendered script.
MaxGpus == 2
\* Longest supplied key path, in atoms.
MaxPath == 4
\* Most entries of the job history.
MaxHistory == 2

\* ------------------------------------------------------------- text
Digits == {"7"}
Whitespace == {" ", "\n"}
Others == {"p"}
Alphabet == Digits \cup Whitespace \cup Others

\* Every reply of at most MaxOut atoms.
Outputs == UNION {[1..n -> Alphabet] : n \in 0..MaxOut}

\* Replies used where only the shape of the reply matters: nothing, an
\* accepted submission, a scheduler error.
SampleReplies ==
  { <<>>, <<"p", " ", "7", "\n">>, <<"p", ":", " ", "p", "\n">> }

RECURSIVE lstrip(_)
lstrip(s) ==
  IF s = <<>> THEN s
  ELSE IF Head(s) \in Whitespace THEN lstrip(Tail(s)) ELSE s

RECURSIVE rstrip(_)
rstrip(s) ==
  IF s = <<>> THEN s
  ELSE IF s[Len(s)] \in Whitespace THEN rstrip(SubSeq(s, 1, Len(s) - 1)) ELSE s

\* str.strip()
strip(s) == rstrip(lstrip(s))

\* Length of the longest prefix of s that holds no whitespace.
RECURSIVE WordLen(_)
WordLen(s) ==
  IF s = <<>> \/ Head(s) \in Whitespace THEN 0 ELSE 1 + WordLen(Tail(s))

\* str.split() with no argument: the maximal runs of non-whitespace.
RECURSIVE split(_)
split(s) ==
  LET t == lstrip(s) IN
    IF t = <<>> THEN <<>>
    ELSE <<SubSeq(t, 1, WordLen(t))>> \o split(SubSeq(t, WordLen(t) + 1, Len(t)))

\* str.isdigit(): non-empty and every character a digit.
isdigit(tok) == tok # <<>> /\ \A i \in 1..Len(tok) : tok[i] \in Digits

\* str.splitlines(): the lines of s, a final line break adding no empty line.
RECURSIVE splitlines(_)
splitlines(s) ==
  IF s = <<>> THEN <<>>
  ELSE LET k == CHOOSE i \in 1..(Len(s) + 1) :
                  /\ (i = Len(s) + 1 \/ s[i] = "\n")
                  /\ \A j \in 1..(i - 1) : s[j] # "\n"
       IN <<SubSeq(s, 1, k - 1)>> \o splitlines(SubSeq(s, k + 1, Len(s)))

\* ------------------------------------------------------------- domains
Callers == {"t1", "t2"}
WorkDirs == {"/w", "/v"}
JobNames == {"a"}
ScriptPaths == {"/w/run.sh"}
RemoteFiles == {"/w/out.zip", "/w/a.sh"}
LocalFiles == {"out.zip"}
\* The job the scheduler keeps a record of, and an id it never knew.
Job == <<"7">>
JobIds == {Job, <<"7", "7">>}
Queued == {"PENDING", "RUNNING"}
Terminal == {"COMPLETED", "FAILED", "CANCELLED"}
\* States squeue prints; TIMEOUT stands for the states outside the documented set.
Visible == Queued \cup Terminal \cup {"TIMEOUT"}
SchedStates == {"PURGED"} \cup Visible

VARIABLES
  session_state,  \* st.session_state: client (0 is None), connected, hostname, username,
                  \* job_history, job_id (empty while the key is not set),
                  \* data_cache, the Projects page's current_view and
                  \* selected_* keys, remote_path
  clients,        \* the HPCSSHClient objects constructed so far, by identity 1..Len
  ref,            \* per caller: the client it holds (0: none)
  pc,             \* per caller: where its current operation stands
  inv,            \* per caller: the operation in progress
  last,           \* the operation that returned or raised most recently
  sched,          \* the scheduler's record of Job
  returned,       \* the state the latest successful job_status(Job) returned
  remote_fs,      \* the files on the cluster: path to content (a sequence of lines)
  local_fs        \* the downloaded files on the local disk: path to content

vars ==
  <<session_state, clients, ref, pc, inv, last, sched, returned, remote_fs, local_fs>>

NoValue == [none |-> TRUE]

\* Python's None, and the mark of a key that is not in st.session_state.
None == "<None>"
Absent == "<absent>"

\* The output a job left on the cluster.
ResultsFile == << <<"results">> >>

NoInv ==
  [ op |-> "none", client |-> 0, arg |-> <<>>, issued |-> 0,
    executed |-> 0, sftp |-> "none", tmp |-> "none", uploaded |-> FALSE,
    afterClose |-> FALSE, transport |-> "none", lost |-> FALSE, script |-> <<>> ]

NoLast ==
  [ op |-> "none", client |-> 0, arg |-> <<>>, cmd |-> "", issued |-> 0,
    executed |-> 0, sftp |-> "none", tmp |-> "none", uploaded |-> FALSE,
    afterClose |-> FALSE, transport |-> "none", lost |-> FALSE, script |-> <<>>,
    raw |-> <<>>, status |-> "none", err |-> "", value |-> NoValue ]

Init ==
  /\ session_state = [ client |-> 0, connected |-> FALSE, hostname |-> FALSE,
                       username |-> FALSE, job_history |-> <<>>, job_id |-> <<>>,
                       data_cache |-> <<>>, current_view |-> Absent,
                       selected_project |-> Absent, selected_subject |-> Absent,
                       selected_session |-> Absent, selected_acquisition |-> Absent,
                       selected_file |-> Absent, selected_file_path |-> Absent,
                       remote_path |-> Absent ]
  /\ clients = <<>>
  /\ ref = [t \in Callers |-> 0]
  /\ pc = [t \in Callers |-> "idle"]
  /\ inv = [t \in Callers |-> NoInv]
  /\ last = NoLast
  /\ sched = "PENDING"
  /\ returned = <<>>
  /\ remote_fs = ("/w/out.zip" :> ResultsFile)
  /\ local_fs = <<>>

\* ------------------------------------------------------------- the client
\* Variant of _connect that catches the failure and lets the constructor return.
_connect_swallow(ok) ==
  IF ok THEN [raised |-> FALSE, transport |-> "open"]
  ELSE [raised |-> FALSE, transport |-> "unconnected"]

\* _connect: paramiko's connect either establishes the transport or raises.
_connect(ok) ==
  IF ok THEN [raised |-> FALSE, transport |-> "open"]
  ELSE [raised |-> TRUE, transport |-> "unconnected"]

\* __init__: the object exists with an unconnected SSHClient, then _connect
\* runs once; when it raises, the constructor raises and returns no object.
HPCSSHClient(ok) ==
  LET r == _connect(ok) IN
    [ raised |-> r.raised,
      obj |-> [transport |-> r.transport, connects |-> 1, closeCalled |-> FALSE] ]

\* Variant of close that leaves the SSH session as it is.
close_nothing(cl) == [cl EXCEPT !.closeCalled = TRUE]

\* close: closes the SSH session.  closeCalled records that close was called.
close(cl) == [cl EXCEPT !.transport = "closed", !.closeCalled = TRUE]

\* A byte that is not valid UTF-8, and bytes.decode(): it raises
\* UnicodeDecodeError when the bytes hold one.
Undecodable == "\\xff"
decodable(bytes) == \A k \in 1..Len(bytes) : bytes[k] # Undecodable

\* Variant of _run that returns the output without strip().
_run_unstripped(cl, command, raw, stderr) ==
  IF cl.transport # "open"
  THEN [ raised |-> TRUE, err |-> "SessionError", out |-> <<>>, printed |-> <<>>,
         cl |-> cl, cmd |-> command, issued |-> 1, executed |-> 0 ]
  ELSE IF ~decodable(raw) \/ ~decodable(stderr)
  THEN [ raised |-> TRUE, err |-> "UnicodeDecodeError", out |-> <<>>,
         printed |-> <<>>, cl |-> cl, cmd |-> command, issued |-> 1, executed |-> 1 ]
  ELSE [ raised |-> FALSE, err |-> "", out |-> raw,
         printed |-> IF strip(stderr) # <<>> THEN <<strip(stderr)>> ELSE <<>>,
         cl |-> cl, cmd |-> command, issued |-> 1, executed |-> 1 ]

\* Variant of _run that reconnects a session that is not open and issues
\* the command again.
_run_reconnect(cl, command, raw, stderr) ==
  IF cl.transport = "open"
  THEN [ raised |-> FALSE, err |-> "", out |-> strip(raw), printed |-> <<>>,
         cl |-> cl, cmd |-> command, issued |-> 1, executed |-> 1 ]
  ELSE [ raised |-> FALSE, err |-> "", out |-> strip(raw), printed |-> <<>>,
         cl |-> [cl EXCEPT !.transport = "open", !.connects = @ + 1],
         cmd |-> command, issued |-> 2, executed |-> 1 ]

\* _run: exec_command on the session, then stdout and stderr are read,
\* decoded and stripped at both ends; a non-empty stderr is printed and
\* stdout is returned.  exec_command raises when the session is not open;
\* decode() raises on bytes that are not UTF-8; nothing is retried.
\* raw and stderr are what the remote command writes when it is executed.
_run(cl, command, raw, stderr) ==
  IF cl.transport # "open"
  THEN [ raised |-> TRUE, err |-> "SessionError", out |-> <<>>, printed |-> <<>>,
         cl |-> cl, cmd |-> command, issued |-> 1, executed |-> 0 ]
  ELSE IF ~decodable(raw) \/ ~decodable(stderr)
  THEN [ raised |-> TRUE, err |-> "UnicodeDecodeError", out |-> <<>>,
         printed |-> <<>>, cl |-> cl, cmd |-> command, issued |-> 1, executed |-> 1 ]
  ELSE [ raised |-> FALSE, err |-> "", out |-> strip(raw),
         printed |-> IF strip(stderr) # <<>> THEN <<strip(stderr)>> ELSE <<>>,
         cl |-> cl, cmd |-> command, issued |-> 1, executed |-> 1 ]

Raise(r, e) ==
  [ status |-> "raised", err |-> e, value |-> NoValue,
    cl |-> r.cl, cmd |-> r.cmd, issued |-> r.issued, executed |-> r.executed ]

Ok(r, v) ==
  [ status |-> "ok", err |-> "", value |-> v,
    cl |-> r.cl, cmd |-> r.cmd, issued |-> r.issued, executed |-> r.executed ]

\* The text of a sequence of atoms.
RECURSIVE Text(_)
Text(s) == IF s = <<>> THEN "" ELSE Head(s) \o Text(Tail(s))

\* The command strings the operations compose.
squeue_cmd(job_id) == "squeue -j " \o Text(job_id) \o " -h -o '%T'"
sbatch_named_cmd(script_path, job_name) ==
  "sbatch --job-name=" \o job_name \o " " \o script_path
sbatch_cmd(remote_script) == "sbatch " \o remote_script
ls_cmd(base_dir) == "ls -d " \o base_dir \o "/*/"

\* Variant of job_status that reports an empty answer as UNKNOWN.
job_status_unknown(cl, job_id, raw) ==
  LET r == _run(cl, squeue_cmd(job_id), raw, <<>>) IN
    IF r.raised THEN Raise(r, r.err)
    ELSE Ok(r, [state |-> IF r.out = <<>> THEN <<"UNKNOWN">> ELSE r.out])

\* job_status: the stripped output, or COMPLETED when it is empty.
job_status(cl, job_id, raw) ==
  LET r == _run(cl, squeue_cmd(job_id), raw, <<>>) IN
    IF r.raised THEN Raise(r, r.err)
    ELSE Ok(r, [state |-> IF r.out = <<>> THEN <<"COMPLETED">> ELSE r.out])

\* Variant of submit_job without the numeric check.
submit_job_unvalidated(cl, script_path, job_name, raw) ==
  LET r == _run(cl, sbatch_named_cmd(script_path, job_name), raw, <<>>) IN
    IF r.raised THEN Raise(r, r.err)
    ELSE IF r.out = <<>> THEN Raise(r, "ValueError")
    ELSE LET parts == split(r.out) IN
      IF parts = <<>> THEN Raise(r, "ValueError")
      ELSE Ok(r, [job_id |-> parts[Len(parts)]])

\* Variant of submit_job that takes the first token, not the last.
submit_job_first_token(cl, script_path, job_name, raw) ==
  LET r == _run(cl, sbatch_named_cmd(script_path, job_name), raw, <<>>) IN
    IF r.raised THEN Raise(r, r.err)
    ELSE IF r.out = <<>> THEN Raise(r, "ValueError")
    ELSE LET parts == split(r.out) IN
      IF parts = <<>> THEN Raise(r, "ValueError")
      ELSE LET job_id == parts[1] IN
        IF ~isdigit(job_id) THEN Raise(r, "ValueError")
        ELSE Ok(r, [job_id |-> job_id])

\* submit_job: the last whitespace-separated token, validated as numeric.
submit_job(cl, script_path, job_name, raw) ==
  LET r == _run(cl, sbatch_named_cmd(script_path, job_name), raw, <<>>) IN
    IF r.raised THEN Raise(r, r.err)
    ELSE IF r.out = <<>> THEN Raise(r, "ValueError")
    ELSE LET parts == split(r.out) IN
      IF parts = <<>> THEN Raise(r, "ValueError")
      ELSE LET job_id == parts[Len(parts)] IN
        IF ~isdigit(job_id) THEN Raise(r, "ValueError")
        ELSE Ok(r, [job_id |-> job_id])

\* ------------------------------------------------------------- the batch script
\* str() of an integer, as the f-string formats cpus and gpus.
DigitChars == <<"0", "1", "2", "3", "4", "5", "6", "7", "8", "9">>

RECURSIVE Str(_)
Str(n) ==
  IF n < 0 THEN "-" \o Str(0 - n)
  ELSE IF n < 10 THEN DigitChars[n + 1]
  ELSE Str(n \div 10) \o DigitChars[(n % 10) + 1]

\* The arguments of submit_apptainer_job.  A script is its sequence of
\* lines; a line is the sequence of its template pieces and inserted values.
JobSpecs ==
  [ image_path : {"img.sif"}, command : {"echo hi", "python run.py"},
    job_name : {"a", "hello_world"}, work_dir : WorkDirs,
    cpus : {2, 4, 16}, mem : {"4G", "16G"}, gpus : 0..MaxGpus,
    time : {"01:00:00", "04:00:00"}, output_log : {"slurm-%j.out"} ]

\* The call submit_apptainer_job(image, command, job_name, work_dir, gpus=g)
\* with the other arguments at their defaults.
DefaultJob(work_dir, job_name, gpus) ==
  [ image_path |-> "img.sif", command |-> "echo hi",
    job_name |-> job_name, work_dir |-> work_dir,
    cpus |-> 2, mem |-> "4G", gpus |-> gpus,
    time |-> "01:00:00", output_log |-> "slurm-%j.out" ]

script_header(js) ==
  << <<"#!/bin/bash">>,
     <<"#SBATCH --job-name=", js.job_name>>,
     <<"#SBATCH --output=", js.output_log>>,
     <<"#SBATCH --cpus-per-task=", Str(js.cpus)>>,
     <<"#SBATCH --mem=", js.mem>>,
     <<"#SBATCH --time=", js.time>> >>

script_body(js) ==
  << <<>>,
     <<"cd ", js.work_dir>>,
     <<>>,
     <<"echo \"Running Apptainer job on $(hostname)\"">>,
     <<"apptainer exec ", js.image_path, " ", js.command>>,
     <<>>,
     <<"echo \"Job completed at $(date)\"">> >>

\* Variant that writes the GPU line for every gpus >= 0.
slurm_script_gpu_always(js) ==
  script_header(js)
    \o (IF js.gpus >= 0 THEN << <<"#SBATCH --gres=gpu:", Str(js.gpus)>> >> ELSE <<>>)
    \o script_body(js)

\* Variant that stamps the script with the number of clients made so far.
slurm_script_stamped(js) ==
  script_header(js)
    \o (IF js.gpus > 0 THEN << <<"#SBATCH --gres=gpu:", Str(js.gpus)>> >> ELSE <<>>)
    \o << <<"# client ", Str(Len(clients))>> >>
    \o script_body(js)

\* Variant that requests the default memory whatever mem is.
slurm_script_default_mem(js) ==
  script_header([js EXCEPT !.mem = "4G"])
    \o (IF js.gpus > 0 THEN << <<"#SBATCH --gres=gpu:", Str(js.gpus)>> >> ELSE <<>>)
    \o script_body(js)

\* slurm_script: the header, the GPU line when gpus > 0, then the body.
slurm_script(js) ==
  script_header(js)
    \o (IF js.gpus > 0 THEN << <<"#SBATCH --gres=gpu:", Str(js.gpus)>> >> ELSE <<>>)
    \o script_body(js)

\* submit_apptainer_job, its path and its last part: sbatch on the uploaded
\* script; the last token is returned as it is, [-1] of no token raises.
remote_script_path(work_dir, job_name) == work_dir \o "/" \o job_name \o ".sh"

apptainer_submit(cl, remote_script, raw) ==
  LET r == _run(cl, sbatch_cmd(remote_script), raw, <<>>) IN
    IF r.raised THEN Raise(r, r.err)
    ELSE LET parts == split(strip(r.out)) IN
      IF parts = <<>> THEN Raise(r, "IndexError")
      ELSE Ok(r, [job_id |-> parts[Len(parts)], remote_script |-> remote_script])

\* list_projects: the lines of the listing.
list_projects(cl, base_dir, raw) ==
  LET r == _run(cl, ls_cmd(base_dir), raw, <<>>) IN
    IF r.raised THEN Raise(r, r.err)
    ELSE Ok(r, [lines |-> splitlines(r.out)])

\* A direct call of _run, as the pages make.
run_command(cl, command, raw, stderr) ==
  LET r == _run(cl, command, raw, stderr) IN
    IF r.raised THEN Raise(r, r.err) ELSE Ok(r, [out |-> r.out])

\* ------------------------------------------------------------- the scheduler
\* squeue -j <id> -h -o '%T': the state and a line break, or nothing when
\* the scheduler holds no record of the id.
SqueueOut(job_id) ==
  IF job_id = Job /\ sched \in Visible THEN <<sched, "\n">> ELSE <<>>

\* ls -d <dir>/*/ on the cluster: /projects holds directories, /empty exists
\* and holds none, /missing does not exist.  ls prints the matches to stdout;
\* when the pattern matches nothing, for either reason, it prints its
\* complaint to stderr and nothing to stdout.
BaseDirs == {"/projects", "/empty", "/missing"}

LsOut(base_dir) ==
  IF base_dir = "/projects" THEN SampleReplies \ {<<>>} ELSE {<<>>}

\* The scheduler holds Job pending after sbatch, runs it, ends it and later
\* purges its record.
SchedStep ==
  /\ \/ sched = "PENDING" /\ sched' \in {"RUNNING", "CANCELLED"}
     \/ sched = "RUNNING" /\ sched' \in Terminal \cup {"TIMEOUT"}
     \/ sched \in Terminal \cup {"TIMEOUT"} /\ sched' = "PURGED"
  /\ UNCHANGED <<session_state, clients, ref, pc, inv, last, returned, remote_fs, local_fs>>

\* ------------------------------------------------------------- calls
Idle(t) == pc[t] = "idle" /\ ref[t] # 0

Start(t, op, arg) ==
  [ NoInv EXCEPT !.op = op, !.client = ref[t], !.arg = arg,
                 !.afterClose = clients[ref[t]].closeCalled,
                 !.transport = clients[ref[t]].transport ]

\* A call whose command is accepted by an open session can lose the session
\* while stdout is read: read() then ends at what had arrived and raises
\* nothing, and the session is dead afterwards.
WithLoss(i, lost) == [i EXCEPT !.lost = lost /\ i.transport = "open"]

AfterRead(i, o) ==
  IF i.lost THEN [o EXCEPT !.cl = [@ EXCEPT !.transport = "dropped"]] ELSE o

\* The record of a finished call: i is the call, o its outcome.
Finished(i, raw, o) ==
  [ op |-> i.op, client |-> i.client, arg |-> i.arg, cmd |-> o.cmd,
    issued |-> i.issued + o.issued, executed |-> i.executed + o.executed,
    sftp |-> i.sftp, tmp |-> i.tmp, uploaded |-> i.uploaded,
    afterClose |-> i.afterClose, transport |-> i.transport, lost |-> i.lost,
    script |-> i.script, raw |-> raw, status |-> o.status, err |-> o.err, value |-> o.value ]

Return(t, i, raw, o) ==
  /\ last' = Finished(i, raw, o)
  /\ clients' = [clients EXCEPT ![i.client] = o.cl]
  /\ pc' = [pc EXCEPT ![t] = "idle"]
  /\ inv' = [inv EXCEPT ![t] = NoInv]

JobStatus(t, job_id, lost) ==
  /\ Idle(t)
  /\ LET i == WithLoss(Start(t, "job_status", job_id), lost)
         raw == IF i.lost THEN <<>> ELSE SqueueOut(job_id)
         o == AfterRead(i, job_status(clients[ref[t]], job_id, raw))
     IN /\ Return(t, i, raw, o)
        /\ returned' = IF o.status = "ok" /\ job_id = Job THEN o.value.state ELSE returned
  /\ UNCHANGED <<session_state, ref, sched, remote_fs, local_fs>>

SubmitJob(t, script_path, job_name, raw, lost) ==
  /\ Idle(t)
  /\ LET i == WithLoss(Start(t, "submit_job", <<script_path, job_name>>), lost)
     IN Return(t, i, raw,
               AfterRead(i, submit_job(clients[ref[t]], script_path, job_name, raw)))
  /\ UNCHANGED <<session_state, ref, sched, returned, remote_fs, local_fs>>

ListProjects(t, base_dir, raw, lost) ==
  /\ Idle(t)
  /\ LET i == WithLoss(Start(t, "list_projects", <<base_dir>>), lost)
     IN Return(t, i, raw, AfterRead(i, list_projects(clients[ref[t]], base_dir, raw)))
  /\ UNCHANGED <<session_state, ref, sched, returned, remote_fs, local_fs>>

RunCommand(t, raw, stderr, lost) ==
  /\ Idle(t)
  /\ LET i == WithLoss(Start(t, "_run", <<"echo $HOME", stderr>>), lost)
     IN Return(t, i, raw,
               AfterRead(i, run_command(clients[ref[t]], "echo $HOME", raw, stderr)))
  /\ UNCHANGED <<session_state, ref, sched, returned, remote_fs, local_fs>>

\* submit_apptainer_job, first part: the script is rendered and written to a
\* temporary file, then open_sftp; it raises when the session is not open.
AptBegin(t, work_dir, job_name, gpus) ==
  /\ Idle(t)
  /\ LET i == [ Start(t, "submit_apptainer_job", <<work_dir, job_name, gpus>>)
                  EXCEPT !.tmp = "exists",
                         !.script = slurm_script(DefaultJob(work_dir, job_name, gpus)) ]
         cl == clients[ref[t]]
     IN IF cl.transport = "open"
        THEN /\ inv' = [inv EXCEPT ![t] = [i EXCEPT !.sftp = "open"]]
             /\ pc' = [pc EXCEPT ![t] = "put"]
             /\ UNCHANGED <<last, clients>>
        ELSE Return(t, i, <<>>,
                    [ status |-> "raised", err |-> "SessionError", value |-> NoValue,
                      cl |-> cl, cmd |-> "", issued |-> 0, executed |-> 0 ])
  /\ UNCHANGED <<session_state, ref, sched, returned, remote_fs, local_fs>>

\* Variant of the upload step that catches a failed put and goes on to sbatch.
AptPutSwallow(t, ok) ==
  /\ pc[t] = "put"
  /\ LET i == inv[t]
         cl == clients[i.client]
     IN /\ remote_fs' = IF cl.transport = "open" /\ ok
                        THEN (remote_script_path(i.arg[1], i.arg[2]) :> i.script) @@ remote_fs
                        ELSE remote_fs
        /\ inv' = [inv EXCEPT ![t] = [ i EXCEPT !.sftp = "closed", !.tmp = "removed",
                                                !.uploaded = cl.transport = "open" /\ ok ]]
        /\ pc' = [pc EXCEPT ![t] = "uploaded"]
        /\ UNCHANGED <<last, clients>>
  /\ UNCHANGED <<session_state, ref, sched, returned, local_fs>>

\* sftp.put, sftp.close, os.remove: a failed put raises and skips the rest.
AptPut(t, ok) ==
  /\ pc[t] = "put"
  /\ LET i == inv[t]
         cl == clients[i.client]
     IN IF cl.transport = "open" /\ ok
        THEN /\ remote_fs' = (remote_script_path(i.arg[1], i.arg[2]) :> i.script) @@ remote_fs
             /\ inv' = [inv EXCEPT ![t] = [ i EXCEPT !.sftp = "closed",
                                                     !.tmp = "removed",
                                                     !.uploaded = TRUE ]]
             /\ pc' = [pc EXCEPT ![t] = "uploaded"]
             /\ UNCHANGED <<last, clients>>
        ELSE /\ Return(t, i, <<>>,
                       [ status |-> "raised", err |-> "TransferError", value |-> NoValue,
                         cl |-> cl, cmd |-> "", issued |-> 0, executed |-> 0 ])
             /\ UNCHANGED remote_fs
  /\ UNCHANGED <<session_state, ref, sched, returned, local_fs>>

\* The sbatch on the uploaded script and the returned job id and path.
AptSubmit(t, raw, lost) ==
  /\ pc[t] = "uploaded"
  /\ LET i == [inv[t] EXCEPT !.lost = lost /\ clients[inv[t].client].transport = "open"]
         o == apptainer_submit(clients[i.client], remote_script_path(i.arg[1], i.arg[2]), raw)
     IN Return(t, i, raw, AfterRead(i, o))
  /\ UNCHANGED <<session_state, ref, sched, returned, remote_fs, local_fs>>

\* download_results: open_sftp, then get and close.
DlBegin(t, remote_path, local_path) ==
  /\ Idle(t)
  /\ LET i == Start(t, "download_results", <<remote_path, local_path>>)
         cl == clients[ref[t]]
     IN IF cl.transport = "open"
        THEN /\ inv' = [inv EXCEPT ![t] = [i EXCEPT !.sftp = "open"]]
             /\ pc' = [pc EXCEPT ![t] = "get"]
             /\ UNCHANGED <<last, clients>>
        ELSE Return(t, i, <<>>,
                    [ status |-> "raised", err |-> "SessionError", value |-> NoValue,
                      cl |-> cl, cmd |-> "", issued |-> 0, executed |-> 0 ])
  /\ UNCHANGED <<session_state, ref, sched, returned, remote_fs, local_fs>>

\* Variant of the download step that leaves an empty local file.
DlGetEmpty(t, ok) ==
  /\ pc[t] = "get"
  /\ LET i == inv[t]
         cl == clients[i.client]
     IN IF cl.transport = "open" /\ ok /\ i.arg[1] \in DOMAIN remote_fs
        THEN /\ local_fs' = (i.arg[2] :> <<>>) @@ local_fs
             /\ Return(t, [i EXCEPT !.sftp = "closed"], <<>>,
                       [ status |-> "ok", err |-> "", value |-> NoValue,
                         cl |-> cl, cmd |-> "", issued |-> 0, executed |-> 0 ])
        ELSE /\ Return(t, i, <<>>,
                       [ status |-> "raised", err |-> "TransferError", value |-> NoValue,
                         cl |-> cl, cmd |-> "", issued |-> 0, executed |-> 0 ])
             /\ UNCHANGED local_fs
  /\ UNCHANGED <<session_state, ref, sched, returned, remote_fs>>

\* sftp.get copies the remote file to local_path, then close; get raises
\* when the remote file does not exist or the transfer fails.
DlGet(t, ok) ==
  /\ pc[t] = "get"
  /\ LET i == inv[t]
         cl == clients[i.client]
     IN IF cl.transport = "open" /\ ok /\ i.arg[1] \in DOMAIN remote_fs
        THEN /\ local_fs' = (i.arg[2] :> remote_fs[i.arg[1]]) @@ local_fs
             /\ Return(t, [i EXCEPT !.sftp = "closed"], <<>>,
                       [ status |-> "ok", err |-> "", value |-> NoValue,
                         cl |-> cl, cmd |-> "", issued |-> 0, executed |-> 0 ])
        ELSE /\ Return(t, i, <<>>,
                       [ status |-> "raised", err |-> "TransferError", value |-> NoValue,
                         cl |-> cl, cmd |-> "", issued |-> 0, executed |-> 0 ])
             /\ UNCHANGED local_fs
  /\ UNCHANGED <<session_state, ref, sched, returned, remote_fs>>

\* client.close() by a caller that keeps its reference.
Close(t) ==
  /\ Idle(t)
  /\ clients' = [clients EXCEPT ![ref[t]] = close(@)]
  /\ UNCHANGED <<session_state, ref, pc, inv, last, sched, returned, remote_fs, local_fs>>

\* The network drops an open session.
DropSession(c) ==
  /\ c \in 1..Len(clients)
  /\ clients[c].transport = "open"
  /\ clients' = [clients EXCEPT ![c].transport = "dropped"]
  /\ UNCHANGED <<session_state, ref, pc, inv, last, sched, returned, remote_fs, local_fs>>

\* ------------------------------------------------------------- Home page
ConnectRecord(r) ==
  [ NoLast EXCEPT !.op = "connect",
                  !.status = IF r.raised THEN "raised" ELSE "ok",
                  !.err = IF r.raised THEN "ConnectionFailed" ELSE "",
                  !.transport = r.obj.transport ]

\* Connect button: the client is stored only when the constructor returned.
HomeConnect(ok) ==
  /\ ~(session_state.connected /\ session_state.client # 0)
  /\ Len(clients) < MaxClients
  /\ LET r == HPCSSHClient(ok) IN
       /\ last' = ConnectRecord(r)
       /\ IF r.raised
          THEN UNCHANGED <<session_state, clients>>
          ELSE /\ clients' = Append(clients, r.obj)
               /\ session_state' = [ session_state EXCEPT
                                       !.client = Len(clients) + 1, !.connected = TRUE,
                                       !.hostname = TRUE, !.username = TRUE ]
  /\ UNCHANGED <<ref, pc, inv, sched, returned, remote_fs, local_fs>>

\* Variant of Disconnect that closes the client and keeps it in the session
\* state.
HomeDisconnect_keep ==
  /\ session_state.connected /\ session_state.client # 0
  /\ clients[session_state.client].transport # "closed"
  /\ clients' = [clients EXCEPT ![session_state.client] = close(@)]
  /\ UNCHANGED <<session_state, ref, pc, inv, last, sched, returned, remote_fs, local_fs>>

\* Variant of Disconnect that drops the client without closing it.
HomeDisconnect_drop ==
  /\ session_state.connected /\ session_state.client # 0
  /\ session_state' = [session_state EXCEPT !.client = 0, !.connected = FALSE]
  /\ UNCHANGED <<clients, ref, pc, inv, last, sched, returned, remote_fs, local_fs>>

\* Disconnect button: close, then drop the client.
HomeDisconnect ==
  /\ session_state.connected /\ session_state.client # 0
  /\ clients' = [clients EXCEPT ![session_state.client] = close(@)]
  /\ session_state' = [session_state EXCEPT !.client = 0, !.connected = FALSE]
  /\ UNCHANGED <<ref, pc, inv, last, sched, returned, remote_fs, local_fs>>

\* A page's script run takes the client from the session state, or stops.
PageLoad(t) ==
  /\ pc[t] = "idle"
  /\ ref' = [ref EXCEPT ![t] = IF session_state.connected /\ session_state.client # 0
                               THEN session_state.client ELSE 0]
  /\ ref'[t] # ref[t]
  /\ UNCHANGED <<session_state, clients, pc, inv, last, sched, returned, remote_fs, local_fs>>

\* ------------------------------------------------------------- specifications
\* One browser session: its script runs follow one another, so one caller
\* uses the session's client at a time.
Next ==
  \/ \E ok \in BOOLEAN : HomeConnect(ok)
  \/ HomeDisconnect
  \/ PageLoad("t1")
  \/ Close("t1")
  \/ \E c \in 1..MaxClients : DropSession(c)
  \/ \E j \in JobIds, lost \in BOOLEAN : JobStatus("t1", j, lost)
  \/ \E p \in ScriptPaths, n \in JobNames, raw \in SampleReplies, lost \in BOOLEAN :
       SubmitJob("t1", p, n, raw, lost)
  \/ \E w \in WorkDirs, n \in JobNames, g \in 0..1 : AptBegin("t1", w, n, g)
  \/ \E ok \in BOOLEAN : AptPut("t1", ok)
  \/ \E raw \in SampleReplies, lost \in BOOLEAN : AptSubmit("t1", raw, lost)
  \/ \E rp \in RemoteFiles, lp \in LocalFiles : DlBegin("t1", rp, lp)
  \/ \E ok \in BOOLEAN : DlGet("t1", ok)
  \/ \E d \in BaseDirs, lost \in BOOLEAN : \E raw \in LsOut(d) : ListProjects("t1", d, raw, lost)
  \/ \E raw \in SampleReplies, lost \in BOOLEAN : RunCommand("t1", raw, <<>>, lost)

Spec == Init /\ [][Next]_vars

\* The submissions of one caller under every scheduler reply up to MaxOut.
IONext ==
  \/ \E ok \in BOOLEAN : HomeConnect(ok)
  \/ PageLoad("t1")
  \/ \E p \in ScriptPaths, n \in JobNames, raw \in Outputs : SubmitJob("t1", p, n, raw, FALSE)
  \/ \E n \in JobNames : AptBegin("t1", "/w", n, 0)
  \/ \E ok \in BOOLEAN : AptPut("t1", ok)
  \/ \E raw \in Outputs : AptSubmit("t1", raw, FALSE)

IOSpec == Init /\ [][IONext]_vars

\* The status queries of one caller while the scheduler moves Job along.
StatusNext ==
  \/ \E ok \in BOOLEAN : HomeConnect(ok)
  \/ HomeDisconnect
  \/ PageLoad("t1")
  \/ \E c \in 1..MaxClients : DropSession(c)
  \/ \E j \in JobIds, lost \in BOOLEAN : JobStatus("t1", j, lost)
  \/ SchedStep

StatusSpec == Init /\ [][StatusNext]_vars

\* Two callers that hold the same client and call it without coordination.
SharedNext ==
  \/ \E ok \in BOOLEAN : HomeConnect(ok)
  \/ \E t \in Callers : PageLoad(t)
  \/ \E t \in Callers, j \in JobIds, lost \in BOOLEAN : JobStatus(t, j, lost)
  \/ \E t \in Callers, w \in WorkDirs, n \in JobNames, g \in 0..1 : AptBegin(t, w, n, g)
  \/ \E t \in Callers, ok \in BOOLEAN : AptPut(t, ok)
  \/ \E t \in Callers, raw \in SampleReplies, lost \in BOOLEAN : AptSubmit(t, raw, lost)
  \/ \E t \in Callers, rp \in RemoteFiles, lp \in LocalFiles : DlBegin(t, rp, lp)
  \/ \E t \in Callers, ok \in BOOLEAN : DlGet(t, ok)

SharedSpec == Init /\ [][SharedNext]_vars

\* The script text alone, for every JobSpec.
Render(js) ==
  /\ last' = [NoLast EXCEPT !.op = "render", !.arg = js, !.script = slurm_script(js)]
  /\ UNCHANGED <<session_state, clients, ref, pc, inv, sched, returned, remote_fs, local_fs>>

RenderNext == \E js \in JobSpecs : Render(js)

RenderSpec == Init /\ [][RenderNext]_vars

\* ------------------------------------------------------------- Job Manager page
\* client.list_directory: HPCSSHClient defines no such method, so the call
\* raises AttributeError whatever the path is.
list_directory(cl, path) ==
  [raised |-> TRUE, err |-> "AttributeError", items |-> <<>>]

\* The subject directories of a BIDS directory, and the sorted listings of
\* some of them.
BidsSubjects == {"sub-01", "sub-02", "sub-03"}
AllSubjects == <<"sub-01", "sub-02", "sub-03">>
BidsListings ==
  { ls \in UNION { [1..n -> 1..Len(AllSubjects)] : n \in 0..Len(AllSubjects) } :
      \A j, k \in 1..Len(ls) : j < k => ls[j] < ls[k] }
Listing(ls) == [k \in 1..Len(ls) |-> AllSubjects[ls[k]]]

\* What the function has when it returns: the list it returns, its counters,
\* and the number of submit_apptainer_job calls it made.
NoJobs == [job_list |-> <<>>, calls |-> 0, processed_sessions |-> 0, failed_sessions |-> 0]

RECURSIVE batch_jobs_keep_failed(_, _, _)
RECURSIVE batch_jobs(_, _, _)

\* Variant of the loop that appends the entry before it submits.
batch_jobs_keep_failed(subjects, dry_run, failing) ==
  IF subjects = <<>> THEN NoJobs
  ELSE LET rest == batch_jobs_keep_failed(Tail(subjects), dry_run, failing)
           job_info == [subject |-> Head(subjects)]
       IN IF dry_run
          THEN [ rest EXCEPT !.job_list = <<job_info>> \o @,
                             !.processed_sessions = @ + 1 ]
          ELSE IF Head(subjects) \in failing
          THEN [ rest EXCEPT !.job_list = <<job_info>> \o @, !.calls = @ + 1,
                             !.failed_sessions = @ + 1 ]
          ELSE [ rest EXCEPT !.job_list = <<job_info @@ [job_id |-> Job]>> \o @,
                             !.calls = @ + 1, !.processed_sessions = @ + 1 ]

\* The loop over the subjects of a listing (BIDS-root containers; the loop
\* over sessions has the same shape): unless dry_run, the job is submitted
\* and its id is added to the entry; then the entry is appended and
\* processed_sessions counts it.  A submission that raises skips both and
\* counts in failed_sessions.  failing holds the subjects whose submission
\* raises; calls counts the submit_apptainer_job calls.
batch_jobs(subjects, dry_run, failing) ==
  IF subjects = <<>> THEN NoJobs
  ELSE LET rest == batch_jobs(Tail(subjects), dry_run, failing)
           job_info == [subject |-> Head(subjects)]
       IN IF dry_run
          THEN [ rest EXCEPT !.job_list = <<job_info>> \o @,
                             !.processed_sessions = @ + 1 ]
          ELSE IF Head(subjects) \in failing
          THEN [rest EXCEPT !.calls = @ + 1, !.failed_sessions = @ + 1]
          ELSE [ rest EXCEPT !.job_list = <<job_info @@ [job_id |-> Job]>> \o @,
                             !.calls = @ + 1, !.processed_sessions = @ + 1 ]

\* Variant that submits a job for the BIDS directory without looking at the
\* listing or at dry_run.
submit_batch_eager(cl, bids_dir, dry_run, failing) ==
  [ NoJobs EXCEPT !.job_list = << [subject |-> "sub-01", job_id |-> Job] >>,
                  !.calls = 1, !.processed_sessions = 1 ]

\* submit_batch_apptainer_jobs: the listing of bids_dir comes first; when it
\* raises, the function reports the error and returns no job.
submit_batch_apptainer_jobs(cl, bids_dir, dry_run, failing) ==
  LET dir_contents == list_directory(cl, bids_dir) IN
    IF dir_contents.raised THEN NoJobs
    ELSE batch_jobs(dir_contents.items, dry_run, failing)

\* The ids a finished batch adds to the job history.
RECURSIVE history_of(_)
history_of(job_list) ==
  IF job_list = <<>> THEN <<>>
  ELSE <<[job_id |-> Head(job_list).job_id, type |-> "Apptainer"]>>
         \o history_of(Tail(job_list))

\* Submit Batch Jobs: the batch, then the history unless dry_run.
BatchSubmit(t, dry_run, failing) ==
  /\ Idle(t)
  /\ LET r == submit_batch_apptainer_jobs(clients[ref[t]], "/bids", dry_run, failing)
         added == IF dry_run THEN <<>> ELSE history_of(r.job_list)
     IN /\ Len(session_state.job_history) + Len(added) <= MaxHistory
        /\ last' = [ NoLast EXCEPT !.op = "batch", !.client = ref[t],
                                   !.arg = <<dry_run>>, !.issued = r.calls,
                                   !.status = "ok",
                                   !.value = [job_list |-> r.job_list] ]
        /\ session_state' =
             [session_state EXCEPT !.job_history = @ \o added]
  /\ UNCHANGED <<clients, ref, pc, inv, sched, returned, remote_fs, local_fs>>

\* Submit Script Job: submit_job, then the job id goes to job_id and to the
\* history.
ScriptSubmit(t, script_path, job_name, raw) ==
  /\ Idle(t)
  /\ Len(session_state.job_history) < MaxHistory
  /\ LET i == Start(t, "submit_job", <<script_path, job_name>>)
         o == submit_job(clients[ref[t]], script_path, job_name, raw)
     IN /\ Return(t, i, raw, o)
        /\ session_state' =
             IF o.status = "ok"
             THEN [ session_state EXCEPT
                      !.job_id = o.value.job_id,
                      !.job_history =
                        Append(@, [job_id |-> o.value.job_id, type |-> "Script"]) ]
             ELSE session_state
  /\ UNCHANGED <<ref, sched, returned, remote_fs, local_fs>>

BatchNext ==
  \/ \E ok \in BOOLEAN : HomeConnect(ok)
  \/ HomeDisconnect
  \/ PageLoad("t1")
  \/ \E c \in 1..MaxClients : DropSession(c)
  \/ \E p \in ScriptPaths, n \in JobNames, raw \in SampleReplies : ScriptSubmit("t1", p, n, raw)
  \/ \E dry_run \in BOOLEAN, failing \in SUBSET BidsSubjects :
       BatchSubmit("t1", dry_run, failing)

BatchSpec == Init /\ [][BatchNext]_vars

\* Submit Batch Jobs on a job list the loop returns: the part of the handler
\* that follows the call.
BatchDone(t, subjects, dry_run, failing) ==
  /\ Idle(t)
  /\ LET r == batch_jobs(subjects, dry_run, failing)
         added == IF dry_run THEN <<>> ELSE history_of(r.job_list)
     IN /\ Len(session_state.job_history) + Len(added) <= MaxHistory
        /\ last' = [ NoLast EXCEPT !.op = "batch", !.client = ref[t],
                                   !.arg = <<dry_run>>, !.issued = r.calls,
                                   !.status = "ok",
                                   !.value = [job_list |-> r.job_list] ]
        /\ session_state' = [session_state EXCEPT !.job_history = @ \o added]
  /\ UNCHANGED <<clients, ref, pc, inv, sched, returned, remote_fs, local_fs>>

\* What sbatch answers to two submissions.
ScriptReplies == { <<"p", " ", "7", "\n">>, <<"p", " ", "7", "7", "\n">>, <<>> }

\* The Job Manager page's two submit buttons.
HistoryNext ==
  \/ \E ok \in BOOLEAN : HomeConnect(ok)
  \/ HomeDisconnect
  \/ PageLoad("t1")
  \/ \E p \in ScriptPaths, n \in JobNames, raw \in ScriptReplies :
       ScriptSubmit("t1", p, n, raw)
  \/ \E ls \in BidsListings, dry_run \in BOOLEAN, failing \in SUBSET BidsSubjects :
       BatchDone("t1", Listing(ls), dry_run, failing)

HistorySpec == Init /\ [][HistoryNext]_vars

\* The loop alone, on every listing, with submissions that raise.
BatchLoop(subjects, dry_run, failing) ==
  /\ last' = [ NoLast EXCEPT !.op = "batch_jobs",
                             !.arg = <<subjects, dry_run, failing>>,
                             !.status = "ok",
                             !.value = batch_jobs(subjects, dry_run, failing) ]
  /\ UNCHANGED <<session_state, clients, ref, pc, inv, sched, returned, remote_fs, local_fs>>

LoopNext ==
  \E ls \in BidsListings, dry_run \in BOOLEAN, failing \in SUBSET BidsSubjects :
    BatchLoop(Listing(ls), dry_run, failing)

LoopSpec == Init /\ [][LoopNext]_vars

\* ------------------------------------------------------------- blocking calls
\* The same calls, split at the point where the caller waits for the remote
\* side.  connect() waits at most its timeout; exec_command is called
\* without a timeout and stdout.read() waits until the remote side answers
\* or the loss of the session is noticed.
ConnectBegin(t) ==
  /\ pc[t] = "idle"
  /\ ~(session_state.connected /\ session_state.client # 0)
  /\ Len(clients) < MaxClients
  /\ pc' = [pc EXCEPT ![t] = "connect"]
  /\ inv' = [inv EXCEPT ![t] = [NoInv EXCEPT !.op = "connect"]]
  /\ UNCHANGED <<session_state, clients, ref, last, sched, returned, remote_fs, local_fs>>

\* The remote side answers the connection attempt.
ConnectEnd(t, ok) ==
  /\ pc[t] = "connect"
  /\ LET r == HPCSSHClient(ok) IN
       /\ last' = ConnectRecord(r)
       /\ IF r.raised
          THEN UNCHANGED <<session_state, clients>>
          ELSE /\ clients' = Append(clients, r.obj)
               /\ session_state' = [ session_state EXCEPT
                                       !.client = Len(clients) + 1, !.connected = TRUE,
                                       !.hostname = TRUE, !.username = TRUE ]
  /\ pc' = [pc EXCEPT ![t] = "idle"]
  /\ inv' = [inv EXCEPT ![t] = NoInv]
  /\ UNCHANGED <<ref, sched, returned, remote_fs, local_fs>>

\* timeout=10: the attempt that got no answer raises.
ConnectTimeout(t) ==
  /\ pc[t] = "connect"
  /\ last' = ConnectRecord(HPCSSHClient(FALSE))
  /\ pc' = [pc EXCEPT ![t] = "idle"]
  /\ inv' = [inv EXCEPT ![t] = NoInv]
  /\ UNCHANGED <<session_state, clients, ref, sched, returned, remote_fs, local_fs>>

\* _run on an open session: exec_command is accepted, the caller is in
\* stdout.read().
RunBegin(t) ==
  /\ Idle(t)
  /\ clients[ref[t]].transport = "open"
  /\ pc' = [pc EXCEPT ![t] = "read"]
  /\ inv' = [inv EXCEPT ![t] = Start(t, "_run", <<"echo $HOME">>)]
  /\ UNCHANGED <<session_state, clients, ref, last, sched, returned, remote_fs, local_fs>>

\* The remote command ends, or the end of the session (lost, or closed on
\* this side) is noticed: read() returns what had arrived.
RunRespond(t, raw, lost) ==
  /\ pc[t] = "read"
  /\ LET i == [inv[t] EXCEPT !.lost = lost]
         was == clients[i.client]
         o == run_command([was EXCEPT !.transport = "open"], "echo $HOME", raw, <<>>)
     IN /\ was.transport # "open" => lost
        /\ Return(t, i, raw,
                  IF was.transport = "open" THEN AfterRead(i, o) ELSE [o EXCEPT !.cl = was])
  /\ UNCHANGED <<session_state, ref, sched, returned, remote_fs, local_fs>>

LiveNext ==
  \/ PageLoad("t1")
  \/ HomeDisconnect
  \/ \E j \in JobIds, lost \in BOOLEAN : JobStatus("t1", j, lost)
  \/ \E c \in 1..MaxClients : DropSession(c)
  \/ ConnectBegin("t1")
  \/ \E ok \in BOOLEAN : ConnectEnd("t1", ok)
  \/ ConnectTimeout("t1")
  \/ RunBegin("t1")
  \/ \E raw \in SampleReplies, lost \in BOOLEAN : RunRespond("t1", raw, lost)

\* The timeout of connect() is the only step the client takes by itself.
LiveSpec == Init /\ [][LiveNext]_vars /\ WF_vars(ConnectTimeout("t1"))

\* ------------------------------------------------------------- the key path
\* A path is a sequence of atoms: the separator, the tilde, a name.  The
\* empty sequence stands for an omitted (None) or empty key_path.
PathAtoms == {"/", "~", "k"}
KeyPaths == UNION {[1..n -> PathAtoms] : n \in 0..MaxPath}
HomeDir == <<"/", "h">>
DefaultKey == <<"~", "/", ".ssh", "/", "id_rsa">>

\* os.path.expanduser: a leading ~ alone or before a separator becomes the
\* home directory; ~name of a user that does not exist, and every other
\* path, stays as it is.
expanduser(p) ==
  IF p # <<>> /\ p[1] = "~" /\ (Len(p) = 1 \/ p[2] = "/")
  THEN HomeDir \o Tail(p)
  ELSE p

\* self.key_path, which _connect hands to connect() as key_filename.
key_path(arg) == expanduser(IF arg = <<>> THEN DefaultKey ELSE arg)

\* The constructor's key path for every supplied path.
KeyPath(arg) ==
  /\ last' = [ NoLast EXCEPT !.op = "key_path", !.arg = arg,
                             !.value = [key_filename |-> key_path(arg)] ]
  /\ UNCHANGED <<session_state, clients, ref, pc, inv, sched, returned, remote_fs, local_fs>>

KeyNext == \E arg \in KeyPaths : KeyPath(arg)

KeySpec == Init /\ [][KeyNext]_vars

\* ------------------------------------------------------------- script runs
\* A page's script run ends: its local name client is gone.
PageEnd(t) ==
  /\ pc[t] = "idle"
  /\ ref[t] # 0
  /\ ref' = [ref EXCEPT ![t] = 0]
  /\ UNCHANGED <<session_state, clients, pc, inv, last, sched, returned, remote_fs, local_fs>>

NoRun == \A t \in Callers : ref[t] = 0

\* The script runs of one browser session follow one another: Home's
\* handlers run when no page run is in progress, and a page run begins with
\* the connection check.
PageNext ==
  \/ \E ok \in BOOLEAN : NoRun /\ HomeConnect(ok)
  \/ NoRun /\ HomeDisconnect
  \/ NoRun /\ PageLoad("t1")
  \/ PageEnd("t1")
  \/ \E c \in 1..MaxClients : DropSession(c)
  \/ \E j \in JobIds, lost \in BOOLEAN : JobStatus("t1", j, lost)
  \/ \E raw \in SampleReplies, lost \in BOOLEAN : RunCommand("t1", raw, <<>>, lost)
  \/ \E rp \in RemoteFiles, lp \in LocalFiles : DlBegin("t1", rp, lp)
  \/ \E ok \in BOOLEAN : DlGet("t1", ok)
  \/ \E dry_run \in BOOLEAN, failing \in SUBSET BidsSubjects :
       BatchSubmit("t1", dry_run, failing)

PageSpec == Init /\ [][PageNext]_vars

\* ------------------------------------------------------------- command output
\* What a remote command can write to stdout and to stderr: bytes, some of
\* them not UTF-8.
RunBytes == {" ", "p", "\n", Undecodable}
RunOutputs == UNION { [1..n -> RunBytes] : n \in 0..MaxOut }
RunErrors == { <<>>, <<"\n">>, <<"p", "\n">>, <<Undecodable>> }

RunNext ==
  \/ \E ok \in BOOLEAN : HomeConnect(ok)
  \/ PageLoad("t1")
  \/ \E raw \in RunOutputs, stderr \in RunErrors : RunCommand("t1", raw, stderr, FALSE)

RunSpec == Init /\ [][RunNext]_vars

\* ------------------------------------------------------------- projects page
\* str.split(sep) for a one-character separator: the pieces between the
\* separators, empty pieces included.
RECURSIVE split_on(_, _)
split_on(s, sep) ==
  IF \A i \in 1..Len(s) : s[i] # sep THEN <<s>>
  ELSE LET k == CHOOSE i \in 1..Len(s) : s[i] = sep /\ \A j \in 1..(i - 1) : s[j] # sep
       IN <<SubSeq(s, 1, k - 1)>> \o split_on(SubSeq(s, k + 1, Len(s)), sep)

\* The order of the characters of directory names, and the order sorted()
\* puts strings in.
Code == (" " :> 32) @@ ("a" :> 97) @@ ("b" :> 98)
RECURSIVE Before(_, _)
Before(x, y) ==
  IF x = <<>> THEN TRUE
  ELSE IF y = <<>> THEN FALSE
  ELSE IF Head(x) # Head(y) THEN Code[Head(x)] < Code[Head(y)]
  ELSE Before(Tail(x), Tail(y))

RECURSIVE insert(_, _)
insert(x, xs) ==
  IF xs = <<>> THEN <<x>>
  ELSE IF Before(x, Head(xs)) THEN <<x>> \o xs
  ELSE <<Head(xs)>> \o insert(x, Tail(xs))

RECURSIVE sorted(_)
sorted(xs) == IF xs = <<>> THEN <<>> ELSE insert(Head(xs), sorted(Tail(xs)))

\* [p.strip() for p in result.split('\n') if p.strip()], sorted, as strings.
RECURSIVE stripped_lines(_)
stripped_lines(ls) ==
  IF ls = <<>> THEN <<>>
  ELSE (IF strip(Head(ls)) # <<>> THEN <<strip(Head(ls))>> ELSE <<>>)
         \o stripped_lines(Tail(ls))

project_list(result) ==
  LET names == sorted(stripped_lines(split_on(result, "\n")))
  IN [k \in 1..Len(names) |-> Text(names[k])]

\* What find prints for $HOME/projects at different times.
ProjectReplies ==
  { <<>>, <<"a", "\n">>, <<"b", "\n", " ", "a", "\n">>, <<"b">> }

find_projects_cmd ==
  "find $HOME/projects -maxdepth 1 -mindepth 1 -type d -exec basename {} \\;"

\* Variant of get_cached_or_fetch that fetches on every call.
get_cached_or_fetch_always(ss, cache_key, fetch) ==
  [ value |-> fetch.value,
    ss |-> [ss EXCEPT !.data_cache = (cache_key :> fetch.value) @@ @],
    fetched |-> 1, issued |-> fetch.issued ]

\* get_cached_or_fetch: the cached value when the key is cached, else the
\* value fetch_func returns, which is stored.  fetch is what invoking
\* fetch_func yields; it is invoked only in the second case.
get_cached_or_fetch(ss, cache_key, fetch) ==
  IF cache_key \in DOMAIN ss.data_cache
  THEN [ value |-> ss.data_cache[cache_key], ss |-> ss, fetched |-> 0, issued |-> 0 ]
  ELSE [ value |-> fetch.value,
         ss |-> [ss EXCEPT !.data_cache = (cache_key :> fetch.value) @@ @],
         fetched |-> 1, issued |-> fetch.issued ]

clear_cache(ss) == [ss EXCEPT !.data_cache = <<>>]

\* get_projects: fetch runs find through _run and turns its output into the
\* sorted list of names; any exception inside fetch gives the empty list.
get_projects(ss, cl, raw) ==
  LET r == _run(cl, find_projects_cmd, raw, <<>>)
      fetch == [ value |-> IF r.raised \/ r.out = <<>> THEN <<>> ELSE project_list(r.out),
                 issued |-> r.issued ]
  IN get_cached_or_fetch(ss, "projects_list", fetch)

\* The names the cluster's directories offer below a project, and the reply
\* to echo $HOME.
SubjectNames == {"sub-1"}
SessionNames == {"ses-1"}
AcquisitionNames == {"anat"}
FileNames == {"f.txt"}
home_dir == "/home/u"

\* Lines 14-15 and 165-176: the keys a first visit creates.
Default(v, d) == IF v = Absent THEN d ELSE v

nav_init(ss) ==
  [ ss EXCEPT !.current_view = Default(@, "projects"),
              !.selected_project = Default(@, None),
              !.selected_subject = Default(@, None),
              !.selected_session = Default(@, None),
              !.selected_acquisition = Default(@, None),
              !.selected_file = Default(@, None) ]

\* Python's truth value of a session key that holds None or a string.
truthy(v) == v \notin {None, ""}

Crumb(v) == IF truthy(v) THEN <<v>> ELSE <<>>

\* Lines 197-207: "Projects", then every selection that is set, in the
\* order project, subject, session, acquisition, file.
breadcrumbs(ss) ==
  <<"Projects">> \o Crumb(ss.selected_project) \o Crumb(ss.selected_subject)
    \o Crumb(ss.selected_session) \o Crumb(ss.selected_acquisition)
    \o Crumb(ss.selected_file)

\* Variant of the breadcrumb handlers that clears the file only.
breadcrumb_click_shallow(ss, idx) ==
  CASE idx = 0 -> [ss EXCEPT !.current_view = "projects", !.selected_file = None]
    [] idx \in {1, 2} -> [ss EXCEPT !.current_view = "sessions", !.selected_file = None]
    [] idx \in {3, 4} -> [ss EXCEPT !.current_view = "acquisitions", !.selected_file = None]
    [] OTHER -> ss

\* Lines 214-248: the handler of the breadcrumb button at position idx.
breadcrumb_click(ss, idx) ==
  CASE idx = 0 -> [ ss EXCEPT !.current_view = "projects", !.selected_project = None,
                              !.selected_subject = None, !.selected_session = None,
                              !.selected_acquisition = None, !.selected_file = None ]
    [] idx = 1 -> [ ss EXCEPT !.current_view = "sessions", !.selected_subject = None,
                              !.selected_session = None, !.selected_acquisition = None,
                              !.selected_file = None ]
    [] idx = 2 -> [ ss EXCEPT !.current_view = "sessions", !.selected_session = None,
                              !.selected_acquisition = None, !.selected_file = None ]
    [] idx = 3 -> [ ss EXCEPT !.current_view = "acquisitions",
                              !.selected_acquisition = None, !.selected_file = None ]
    [] idx = 4 -> [ ss EXCEPT !.current_view = "acquisitions", !.selected_file = None ]
    [] OTHER -> ss

\* Lines 308-313, 375-381, 409-414 and 443-448, 495-498: the other handlers.
select_project(ss, project) ==
  [ss EXCEPT !.selected_project = project, !.current_view = "sessions"]

select_session(ss, subject, session) ==
  [ ss EXCEPT !.selected_subject = subject, !.selected_session = session,
              !.current_view = "acquisitions" ]

session_path(ss) ==
  home_dir \o "/projects/" \o ss.selected_project \o "/" \o ss.selected_subject
    \o "/" \o ss.selected_session

\* The path get_files_in_directory gives a file: files directly in the
\* session folder are listed under the acquisition "session_root".
file_path(ss, acquisition, name) ==
  IF acquisition = "session_root" THEN session_path(ss) \o "/" \o name
  ELSE session_path(ss) \o "/" \o acquisition \o "/" \o name

select_file(ss, acquisition, name) ==
  [ ss EXCEPT !.selected_acquisition = acquisition, !.selected_file = name,
              !.selected_file_path = file_path(ss, acquisition, name),
              !.current_view = "file" ]

back_to_acquisitions(ss) ==
  [ss EXCEPT !.current_view = "acquisitions", !.selected_file = None]

\* What the user does in one script run of the page.
NoEvent == [kind |-> "none", idx |-> 0, sel |-> <<>>]
NavEvents ==
  { NoEvent, [kind |-> "refresh", idx |-> 0, sel |-> <<>>],
    [kind |-> "back", idx |-> 0, sel |-> <<>>] }
  \cup { [kind |-> "breadcrumb", idx |-> k, sel |-> <<>>] : k \in 0..5 }
  \cup { [kind |-> "project", idx |-> 0, sel |-> <<p>>] : p \in {"a", "b"} }
  \cup { [kind |-> "session", idx |-> 0, sel |-> <<s, e>>] :
           s \in SubjectNames, e \in SessionNames }
  \cup { [kind |-> "file", idx |-> 0, sel |-> <<a, f>>] :
           a \in AcquisitionNames \cup {"session_root"}, f \in FileNames }

InList(x, xs) == \E k \in 1..Len(xs) : xs[k] = x

\* The outcome of one script run: the session state it leaves, whether it
\* consumed the event, whether it ended in st.rerun(), and what its call of
\* get_projects did.
Ran(ss, handled, rerun) ==
  [ ss |-> ss, handled |-> handled, rerun |-> rerun, called |-> FALSE,
    value |-> <<>>, fetched |-> 0, issued |-> 0 ]

RanProjects(g, ss, handled, rerun) ==
  [ ss |-> ss, handled |-> handled, rerun |-> rerun, called |-> TRUE,
    value |-> g.value, fetched |-> g.fetched, issued |-> g.issued ]

\* One script run of pages/4_Projects.py, top to bottom.  An uncaught
\* exception (echo $HOME on a session that is not open, a missing
\* selected_file_path) ends the run where it is raised.
run_once(ss0, cl, ev, raw) ==
  LET ss == nav_init(ss0) IN
    IF ev.kind = "refresh" THEN Ran(clear_cache(ss), TRUE, TRUE)
    ELSE IF ~(ss.connected /\ ss.client # 0) THEN Ran(ss, ev = NoEvent, FALSE)
    ELSE IF ev.kind = "breadcrumb"
    THEN IF ev.idx < Len(breadcrumbs(ss)) /\ ev.idx <= 4
         THEN Ran(breadcrumb_click(ss, ev.idx), TRUE, TRUE)
         ELSE Ran(ss, FALSE, FALSE)
    ELSE IF ss.current_view = "projects"
    THEN LET g == get_projects(ss, cl, raw) IN
           IF g.value # <<>> /\ cl.transport = "open"
                /\ ev.kind = "project" /\ InList(ev.sel[1], g.value)
           THEN RanProjects(g, select_project(g.ss, ev.sel[1]), TRUE, TRUE)
           ELSE RanProjects(g, g.ss, ev = NoEvent, FALSE)
    ELSE IF ss.current_view = "sessions"
    THEN IF cl.transport = "open" /\ ev.kind = "session"
         THEN Ran(select_session(ss, ev.sel[1], ev.sel[2]), TRUE, TRUE)
         ELSE Ran(ss, ev = NoEvent, FALSE)
    ELSE IF ss.current_view = "acquisitions"
    THEN IF cl.transport = "open" /\ ev.kind = "file"
         THEN Ran(select_file(ss, ev.sel[1], ev.sel[2]), TRUE, TRUE)
         ELSE Ran(ss, ev = NoEvent, FALSE)
    ELSE IF ss.current_view = "file"
    THEN IF ss.selected_file_path # Absent /\ ev.kind = "back"
         THEN Ran(back_to_acquisitions(ss), TRUE, TRUE)
         ELSE Ran(ss, ev = NoEvent, FALSE)
    ELSE Ran(ss, ev = NoEvent, FALSE)

\* A run that ends in st.rerun() is followed at once by a run without event.
projects_page(ss, cl, ev, raw) ==
  LET a == run_once(ss, cl, ev, raw) IN
    IF ~a.rerun THEN a
    ELSE LET b == run_once(a.ss, cl, NoEvent, raw) IN
           IF a.called THEN [a EXCEPT !.ss = b.ss] ELSE [b EXCEPT !.handled = a.handled]

NoClient == [transport |-> "none", connects |-> 0, closeCalled |-> FALSE]

ProjectsPage(ev, raw) ==
  /\ NoRun
  /\ LET cl == IF session_state.client # 0 THEN clients[session_state.client]
               ELSE NoClient
         o == projects_page(session_state, cl, ev, raw)
     IN /\ o.handled
        /\ session_state' = o.ss
        /\ last' = [ NoLast EXCEPT
                       !.op = "projects_page", !.arg = <<ev>>, !.status = "ok",
                       !.issued = o.issued,
                       !.raw = IF o.fetched = 1 THEN raw ELSE <<>>,
                       !.value = IF o.called
                                 THEN [projects |-> o.value, fetched |-> o.fetched]
                                 ELSE NoValue ]
  /\ UNCHANGED <<clients, ref, pc, inv, sched, returned, remote_fs, local_fs>>

\* The Projects page of one browser session, with the Home page's buttons
\* and a session that can die.
NavNext ==
  \/ \E ok \in BOOLEAN : HomeConnect(ok)
  \/ HomeDisconnect
  \/ \E c \in 1..MaxClients : DropSession(c)
  \/ \E ev \in NavEvents, raw \in ProjectReplies : ProjectsPage(ev, raw)

NavSpec == Init /\ [][NavNext]_vars

\* ------------------------------------------------------------- the other pages
\* Download Data, the download button of a listed file: the file's name goes
\* to selected_file and its path to remote_path.  The button is there when
\* the page passed its connection check and listed the output directory.
remote_output_dir == "/home/u/projects/a/out/output"

DownloadPick(name) ==
  /\ NoRun
  /\ session_state.connected /\ session_state.client # 0
  /\ clients[session_state.client].transport = "open"
  /\ session_state' = [ session_state EXCEPT
                          !.selected_file = name,
                          !.remote_path = remote_output_dir \o "/" \o name ]
  /\ last' = [NoLast EXCEPT !.op = "download_page", !.arg = <<name>>, !.status = "ok"]
  /\ UNCHANGED <<clients, ref, pc, inv, sched, returned, remote_fs, local_fs>>

\* Job Manager, the Select Project box: its key is selected_project, so the
\* chosen project is stored under that key.  The box is there when the page
\* passed its connection check and list_project_directories gave projects.
SelectProjectBox(project) ==
  /\ NoRun
  /\ session_state.connected /\ session_state.client # 0
  /\ clients[session_state.client].transport = "open"
  /\ session_state' = [session_state EXCEPT !.selected_project = project]
  /\ last' = [NoLast EXCEPT !.op = "job_manager_page", !.arg = <<project>>, !.status = "ok"]
  /\ UNCHANGED <<clients, ref, pc, inv, sched, returned, remote_fs, local_fs>>

\* The pages of one browser session that write the Projects page's keys.
SiteNext ==
  \/ \E ok \in BOOLEAN : HomeConnect(ok)
  \/ HomeDisconnect
  \/ \E c \in 1..MaxClients : DropSession(c)
  \/ \E ev \in NavEvents, raw \in ProjectReplies : ProjectsPage(ev, raw)
  \/ \E name \in FileNames : DownloadPick(name)
  \/ \E project \in {"a", "b"} : SelectProjectBox(project)

SiteSpec == Init /\ [][SiteNext]_vars

\* ------------------------------------------------------------- properties
\* What the claims say about a scheduler reply, stated on the reply itself.
Blank(raw) == \A i \in 1..Len(raw) : raw[i] \in Whitespace

\* The last maximal run of non-whitespace atoms of a reply that is not blank.
LastToken(raw) ==
  LET e == CHOOSE i \in 1..Len(raw) :
             raw[i] \notin Whitespace /\ \A j \in (i + 1)..Len(raw) : raw[j] \in Whitespace
      b == CHOOSE i \in 1..e :
             /\ \A k \in i..e : raw[k] \notin Whitespace
             /\ (i = 1 \/ raw[i - 1] \in Whitespace)
  IN SubSeq(raw, b, e)

AllDigits(tok) == \A i \in 1..Len(tok) : tok[i] \in Digits

NumericReply(raw) == ~Blank(raw) /\ AllDigits(LastToken(raw))

\* C1: submit_job raises its submission error (ValueError) and returns no
\* job for every sbatch output that is empty, all whitespace, or whose last
\* whitespace-separated token holds a character that is not a digit.
C1_SubmitJobRejects ==
  (last.op = "submit_job" /\ last.executed = 1 /\ ~NumericReply(last.raw))
    => (last.status = "raised" /\ last.err = "ValueError" /\ last.value = NoValue)

C1_Witness ==
  /\ last.op = "submit_job" /\ last.executed = 1
  /\ last.raw = <<"7", " ", "p">>
  /\ last.status = "raised"

\* C2: submit_apptainer_job never returns a job_id that is not an all-digit
\* token, and ends in a failure whenever the sbatch output is empty or its
\* last token is not numeric.
C2_ApptainerValidates ==
  (last.op = "submit_apptainer_job" /\ last.executed = 1)
    => IF NumericReply(last.raw)
       THEN last.status = "ok" => AllDigits(last.value.job_id)
       ELSE last.status = "raised"

\* C3: for every sbatch output whose last token is all digits, submit_job
\* returns exactly that token as job_id, and nothing but the job_id.
C3_SubmitJobReturnsLastToken ==
  (last.op = "submit_job" /\ last.executed = 1 /\ NumericReply(last.raw))
    => /\ last.status = "ok"
       /\ DOMAIN last.value = {"job_id"}
       /\ last.value.job_id = LastToken(last.raw)

C3_Witness ==
  /\ last.op = "submit_job"
  /\ last.raw = <<"p", " ", "7">>
  /\ last.status = "ok"
  /\ last.value = [job_id |-> <<"7">>]

\* The path submit_apptainer_job uploads to, from its arguments.
UploadPath(arg) == arg[1] \o "/" \o arg[2] \o ".sh"

\* C4: submit_apptainer_job issues sbatch only after the upload to
\* {work_dir}/{job_name}.sh completed, sbatch names exactly that path, the
\* returned remote_script is that path, and a failed upload ends the call
\* with an error and no sbatch.
C4_UploadThenSubmit ==
  /\ \A t \in Callers :
       pc[t] = "uploaded" =>
         inv[t].uploaded /\ inv[t].issued = 0 /\ UploadPath(inv[t].arg) \in DOMAIN remote_fs
  /\ last.op = "submit_apptainer_job" =>
       /\ last.issued > 0 =>
            /\ last.uploaded
            /\ UploadPath(last.arg) \in DOMAIN remote_fs
            /\ last.cmd = "sbatch " \o UploadPath(last.arg)
       /\ last.status = "ok" => last.value.remote_script = UploadPath(last.arg)
       /\ ~last.uploaded => (last.status = "raised" /\ last.issued = 0 /\ last.cmd = "")

C4_Witness ==
  /\ last.op = "submit_apptainer_job"
  /\ last.status = "ok"
  /\ last.cmd = "sbatch /w/a.sh"
  /\ last.value.remote_script = "/w/a.sh"
  /\ "/w/a.sh" \in DOMAIN remote_fs

\* C5: job_status returns COMPLETED when squeue printed nothing, and the
\* state squeue printed otherwise, whatever that state is; an id the
\* scheduler does not know is reported as COMPLETED.
C5_StatusVerbatimOrCompleted ==
  (last.op = "job_status" /\ last.executed = 1)
    => /\ last.status = "ok"
       /\ last.raw = <<>> => last.value.state = <<"COMPLETED">>
       /\ last.raw # <<>> => (last.raw[1] \in Visible /\ last.value.state = <<last.raw[1]>>)
       /\ last.arg # Job => last.value.state = <<"COMPLETED">>

C5_Witness ==
  /\ last.op = "job_status"
  /\ last.arg = <<"7", "7">>
  /\ last.raw = <<>>
  /\ last.value = [state |-> <<"COMPLETED">>]

TerminalAnswers == {<<s>> : s \in Terminal}

C7_ClosedClientFails ==
  /\ \A t \in Callers : pc[t] # "idle" => ~inv[t].afterClose
  /\ last.afterClose =>
       /\ last.status = "raised" /\ last.err = "SessionError"
       /\ last.executed = 0
       /\ last.sftp = "none"

C7_Witness ==
  /\ last.afterClose
  /\ last.op = "download_results"
  /\ last.status = "raised"

\* C8: every client that exists, the one in the session state and the one a
\* caller holds included, had its session established; connected is set
\* only with a client; a failed connection attempt leaves no client behind.
C8_EstablishedOrAbsent ==
  /\ \A c \in 1..Len(clients) : clients[c].transport # "unconnected"
  /\ session_state.client \in 0..Len(clients)
  /\ session_state.connected => session_state.client # 0
  /\ \A t \in Callers : ref[t] \in 0..Len(clients)
  /\ (last.op = "connect" /\ last.status = "raised" /\ clients = <<>>)
       => (session_state.client = 0 /\ ~session_state.connected)

C8_Witness ==
  /\ last.op = "connect" /\ last.status = "raised"
  /\ session_state.client = 0 /\ ~session_state.connected
  /\ clients = <<>>

\* C9: no two operations on one client are in progress at the same time.
C9_Serialized ==
  \A t1, t2 \in Callers :
    (t1 # t2 /\ pc[t1] # "idle" /\ pc[t2] # "idle") => inv[t1].client # inv[t2].client

\* C10: a client connects once, in its constructor; a session that is not
\* open is never opened again; job_status and submit_job issue their command
\* once, submit_apptainer_job once after its upload and not at all when the
\* upload failed.
C10_ConnectOnceNoRetry ==
  [][ /\ \A c \in 1..Len(clients') : clients'[c].connects = 1
      /\ \A c \in 1..Len(clients) :
           clients[c].transport # "open" => clients'[c].transport # "open"
      /\ last'.op \in {"job_status", "submit_job"} => last'.issued = 1
      /\ last'.op = "submit_apptainer_job" =>
           last'.issued = IF last'.uploaded THEN 1 ELSE 0 ]_vars

C10_Witness ==
  /\ last.op = "job_status"
  /\ last.transport = "dropped"
  /\ last.status = "raised"
  /\ last.issued = 1 /\ last.executed = 0
  /\ clients[last.client].transport = "dropped"

\* A failure of the command transport or of the file transfer in the call
\* that finished last: the session refused the command or the channel, the
\* session was lost while the output was read, or put/get failed and left
\* the channel open.
TransportFailed(l) ==
  \/ l.lost
  \/ l.executed < l.issued
  \/ l.sftp = "open"
  \/ l.op \in {"submit_apptainer_job", "download_results"} /\ l.transport # "open"

\* C11: when the command transport or the file transfer fails during
\* job_status, submit_job, submit_apptainer_job or download_results, the
\* call raises and returns no result; job_status never answers COMPLETED
\* and a submission never answers a job id because of such a failure.
C11_NoSwallowedFailure ==
  ( /\ last.op \in {"job_status", "submit_job", "submit_apptainer_job", "download_results"}
    /\ TransportFailed(last) )
    => (last.status = "raised" /\ last.value = NoValue)

\* Statements about a rendered script: the lines that open with a piece.
LinesWith(script, key) ==
  {n \in 1..Len(script) : script[n] # <<>> /\ script[n][1] = key}

\* C12: the rendered script holds a #SBATCH --gres=gpu:N line if and only
\* if gpus > 0, for every gpus >= 0; the line then carries gpus.
C12_GpuLineIffPositive ==
  last.op = "render" =>
    LET g == LinesWith(last.script, "#SBATCH --gres=gpu:") IN
      /\ (g # {}) <=> (last.arg.gpus > 0)
      /\ \A n \in g : last.script[n] = <<"#SBATCH --gres=gpu:", Str(last.arg.gpus)>>

C12_Witness ==
  /\ last.op = "render"
  /\ last.arg.gpus = 2
  /\ last.script[7] = <<"#SBATCH --gres=gpu:", "2">>

\* The first piece of every line, in order.
Heads(script) ==
  [n \in 1..Len(script) |-> IF script[n] = <<>> THEN "" ELSE script[n][1]]

HeaderHeads ==
  << "#!/bin/bash", "#SBATCH --job-name=", "#SBATCH --output=",
     "#SBATCH --cpus-per-task=", "#SBATCH --mem=", "#SBATCH --time=" >>

BodyHeads ==
  << "", "cd ", "", "echo \"Running Apptainer job on $(hostname)\"",
     "apptainer exec ", "", "echo \"Job completed at $(date)\"" >>

\* Every inserted piece of the script is a field of the JobSpec js.
OnlyFromJobSpec(script, js) ==
  \A n \in 1..Len(script) : \A k \in 2..Len(script[n]) :
    script[n][k] \in { js.job_name, js.output_log, Str(js.cpus), js.mem, js.time,
                       Str(js.gpus), js.work_dir, js.image_path, js.command, " " }

\* C13: two submissions with equal arguments write the same script, whatever
\* happened between them; its lines come in the order job-name, output,
\* cpus-per-task, mem, time, the GPU line if any, then the body; and nothing
\* but the arguments is inserted.
C13_RenderDeterministic ==
  /\ \A t \in Callers :
       ( /\ last.op = "submit_apptainer_job"
         /\ inv[t].op = "submit_apptainer_job"
         /\ inv[t].arg = last.arg )
         => inv[t].script = last.script
  /\ last.op = "submit_apptainer_job" =>
       /\ Heads(last.script) =
            HeaderHeads
              \o (IF last.arg[3] > 0 THEN <<"#SBATCH --gres=gpu:">> ELSE <<>>)
              \o BodyHeads
       /\ OnlyFromJobSpec(last.script, DefaultJob(last.arg[1], last.arg[2], last.arg[3]))

C13_Witness ==
  /\ last.op = "submit_apptainer_job"
  /\ last.client = 1
  /\ inv["t1"].op = "submit_apptainer_job"
  /\ inv["t1"].client = 2
  /\ inv["t1"].arg = last.arg
  /\ last.arg[3] = 1
  /\ inv["t1"].script = last.script

\* C14: the script has exactly one line for each of job-name, output,
\* cpus-per-task, mem and time, carrying the supplied value, and after them
\* a body that changes into work_dir and then runs
\* apptainer exec image_path command.
C14_OneDirectivePerResource ==
  last.op = "render" =>
    LET js == last.arg
        s == last.script
        One(key, v) ==
          /\ Cardinality(LinesWith(s, key)) = 1
          /\ \A n \in LinesWith(s, key) : s[n] = <<key, v>>
        hdr == UNION { LinesWith(s, HeaderHeads[k]) : k \in 2..Len(HeaderHeads) }
    IN /\ One("#SBATCH --job-name=", js.job_name)
       /\ One("#SBATCH --output=", js.output_log)
       /\ One("#SBATCH --cpus-per-task=", Str(js.cpus))
       /\ One("#SBATCH --mem=", js.mem)
       /\ One("#SBATCH --time=", js.time)
       /\ One("cd ", js.work_dir)
       /\ Cardinality(LinesWith(s, "apptainer exec ")) = 1
       /\ \A c \in LinesWith(s, "cd "), a \in LinesWith(s, "apptainer exec ") :
            /\ s[a] = <<"apptainer exec ", js.image_path, " ", js.command>>
            /\ c < a
            /\ \A h \in hdr \cup LinesWith(s, "#SBATCH --gres=gpu:") : h < c

\* The scenario name=hello_world, cpus=4, mem=16G, gpus=0, time=04:00:00,
\* command "echo hi".
C14_Witness ==
  /\ last.op = "render"
  /\ last.arg.job_name = "hello_world" /\ last.arg.gpus = 0
  /\ last.script[2] = <<"#SBATCH --job-name=", "hello_world">>
  /\ last.script[4] = <<"#SBATCH --cpus-per-task=", "4">>
  /\ last.script[5] = <<"#SBATCH --mem=", "16G">>
  /\ last.script[6] = <<"#SBATCH --time=", "04:00:00">>
  /\ LinesWith(last.script, "#SBATCH --gres=gpu:") = {}
  /\ \E n \in 1..Len(last.script) :
       last.script[n] = <<"apptainer exec ", "img.sif", " ", "echo hi">>

\* C15: listing a directory that does not exist raises; it never returns an
\* empty sequence.
C15_MissingDirectoryRaises ==
  (last.op = "list_projects" /\ last.arg[1] = "/missing")
    => (last.status = "raised" /\ last.value # [lines |-> <<>>])

C17_EveryCallEnds == (pc["t1"] # "idle") ~> (pc["t1"] = "idle")

\* The part of C17 about connect: an attempt that has begun ends.
ConnectEnds == (pc["t1"] = "connect") ~> (pc["t1"] = "idle")

\* C18: for every supplied key path, absolute, starting with ~, relative or
\* omitted, the key_filename handed to connect() is an absolute path.
C18_KeyPathAbsolute ==
  last.op = "key_path" =>
    (last.value.key_filename # <<>> /\ last.value.key_filename[1] = "/")

C20_PagesNeedConnection ==
  /\ \A t \in Callers :
       (ref[t] # 0 \/ pc[t] # "idle")
         => /\ session_state.connected
            /\ session_state.client # 0
            /\ ref[t] = session_state.client
            /\ ~clients[ref[t]].closeCalled
  /\ last.op \notin {"none", "connect"} => (last.client # 0 /\ ~last.afterClose)

C20_Witness ==
  /\ ~session_state.connected /\ session_state.client = 0
  /\ Len(clients) = 1 /\ clients[1].closeCalled
  /\ last.op = "download_results" /\ last.status = "ok" /\ last.client = 1
  /\ ref["t1"] = 0

\* C21: every command that an open session executes returns normally, and
\* returns its standard output with the trailing whitespace removed,
\* whatever it wrote to standard error.
C21_RunReturnsStdout ==
  (last.op = "_run" /\ last.executed = 1)
    => /\ last.status = "ok"
       /\ last.value.out = rstrip(last.raw)

\* What the cache holds for the project list, and the steps that are a run
\* of the Projects page.
ProjectsKey == "projects_list"
Cached(ss) == ProjectsKey \in DOMAIN ss.data_cache
PageStep == last' # last /\ last'.op = "projects_page"
RefreshStep == PageStep /\ last'.arg[1].kind = "refresh"

\* C22: a get_projects call that finds the key cached fetches nothing and
\* returns the cached value; one that does not (first use, or after Refresh
\* cleared the cache) fetches exactly once and stores what it fetched; and
\* no step other than Refresh removes or changes a cached value.
C22_FetchOncePerKey ==
  [][ /\ (PageStep /\ last'.value # NoValue)
        => IF Cached(session_state) /\ ~RefreshStep
           THEN /\ last'.value.fetched = 0
                /\ last'.issued = 0
                /\ last'.value.projects = session_state.data_cache[ProjectsKey]
           ELSE /\ last'.value.fetched = 1
                /\ Cached(session_state')
                /\ session_state'.data_cache[ProjectsKey] = last'.value.projects
      /\ (Cached(session_state) /\ ~RefreshStep)
        => /\ Cached(session_state')
           /\ session_state'.data_cache[ProjectsKey] = session_state.data_cache[ProjectsKey]
    ]_vars

\* A get_projects call answered from the cache with a list of two projects.
C22_Witness ==
  /\ last.op = "projects_page"
  /\ last.value # NoValue
  /\ last.value.fetched = 0
  /\ last.value.projects = <<"a", "b">>
  /\ session_state.data_cache[ProjectsKey] = <<"a", "b">>

\* C23: when download_results or submit_apptainer_job has returned or
\* raised, no SFTP channel it opened is still open and the temporary script
\* file it wrote no longer exists.
C23_ChannelAndTempFileReleased ==
  (last.op \in {"download_results", "submit_apptainer_job"})
    => (last.sftp # "open" /\ last.tmp # "exists")

\* The entries of a job list that belong to one subject.
EntriesOf(job_list, subject) ==
  {k \in 1..Len(job_list) : job_list[k].subject = subject}
Raised(subjects, dry_run, failing) ==
  {k \in 1..Len(subjects) : ~dry_run /\ subjects[k] \in failing}

\* C24: when the batch loop ends, job_list is as long as processed_sessions
\* says; every subject whose submission raised counts in failed_sessions
\* and has no entry; and unless dry_run every entry holds a job_id.
C24_JobListMatchesCounters ==
  (last.op = "batch_jobs")
    => LET subjects == last.arg[1]
           dry_run == last.arg[2]
           failing == last.arg[3]
           v == last.value
       IN /\ Len(v.job_list) = v.processed_sessions
          /\ v.failed_sessions = Cardinality(Raised(subjects, dry_run, failing))
          /\ \A k \in Raised(subjects, dry_run, failing) :
               EntriesOf(v.job_list, subjects[k]) = {}
          /\ ~dry_run => \A k \in 1..Len(v.job_list) : "job_id" \in DOMAIN v.job_list[k]

\* A batch of three subjects in which the submission of one raised.
C24_Witness ==
  /\ last.op = "batch_jobs"
  /\ Len(last.arg[1]) = 3 /\ ~last.arg[2] /\ last.arg[3] = {"sub-02"}
  /\ last.value.failed_sessions = 1
  /\ Len(last.value.job_list) = 2

C26_ConnectedIffClient ==
  /\ []( /\ session_state.connected <=> session_state.client # 0
         /\ session_state.connected
              => (session_state.hostname /\ session_state.username) )
  /\ [][ (session_state.connected /\ ~session_state'.connected)
           => /\ session_state'.client = 0
              /\ clients'[session_state.client].closeCalled
              /\ clients'[session_state.client].transport = "closed" ]_vars

\* Connected again after a Disconnect: the first client is closed and
\* dropped, the second one is stored.
C26_Witness ==
  /\ Len(clients) = 2
  /\ clients[1].closeCalled /\ clients[1].transport = "closed"
  /\ session_state.connected /\ session_state.client = 2
  /\ session_state.hostname /\ session_state.username

\* The selection of hierarchy level j (1: project ... 5: file), and whether
\* a session key holds a value.
Sel(ss, j) ==
  CASE j = 1 -> ss.selected_project
    [] j = 2 -> ss.selected_subject
    [] j = 3 -> ss.selected_session
    [] j = 4 -> ss.selected_acquisition
    [] j = 5 -> ss.selected_file
IsSet(v) == v \notin {None, Absent}
Views == {"projects", "sessions", "acquisitions", "file"}
BreadcrumbStep(k) ==
  PageStep /\ last'.arg[1].kind = "breadcrumb" /\ last'.arg[1].idx = k

\* The view is one of the four and the selections it reads are set.
ViewHasItsSelections ==
  /\ session_state.current_view \in Views \cup {Absent}
  /\ session_state.current_view = "sessions" => IsSet(session_state.selected_project)
  /\ session_state.current_view = "acquisitions"
       => /\ IsSet(session_state.selected_project)
          /\ IsSet(session_state.selected_subject)
          /\ IsSet(session_state.selected_session)
  /\ session_state.current_view = "file"
       => /\ IsSet(session_state.selected_file)
          /\ IsSet(session_state.selected_file_path)

\* C27: the view is one of the four and has the selections it reads, and a
\* breadcrumb click at level k clears the selection of every level below k
\* and keeps the selections of level k and above (and the stored path of
\* the file last opened).
C27_BreadcrumbClearsLevels ==
  /\ []ViewHasItsSelections
  /\ [][ \A k \in 0..4 :
           BreadcrumbStep(k)
             => /\ \A j \in 1..5 :
                     IF j > k THEN ~IsSet(Sel(session_state', j))
                     ELSE Sel(session_state', j) = Sel(session_state, j)
                /\ session_state'.selected_file_path
                     = session_state.selected_file_path ]_vars

\* The acquisition breadcrumb was clicked in the file view: the file is
\* cleared, the four levels above it are kept.
C27_Witness ==
  /\ last.op = "projects_page"
  /\ last.arg[1].kind = "breadcrumb" /\ last.arg[1].idx = 4
  /\ session_state.current_view = "acquisitions"
  /\ session_state.selected_acquisition = "anat"
  /\ session_state.selected_file = None
  /\ IsSet(session_state.selected_file_path)

\* C28: the selections are prefix-closed (a level is set only when every
\* level above it is set), and a breadcrumb click leaves the page in a view
\* whose selections are set.
C28_SelectionsPrefixClosed ==
  /\ [](\A j \in 2..5 : IsSet(Sel(session_state, j)) => IsSet(Sel(session_state, j - 1)))
  /\ [][ (\E k \in 0..4 : BreadcrumbStep(k)) => ViewHasItsSelections' ]_vars

====
